---- MODULE Spec2Model ----
(***************************************************************************)
(* Model of gruvi/protocols.py: BaseProtocol, Protocol (stream) and        *)
(* MessageProtocol.  One protocol instance, the transport callbacks that   *)
(* the hub delivers to it, NumTasks application fibers that call the       *)
(* blocking API (write, writelines, write_eof, close, get_message) and the *)
(* dispatcher fiber of MessageProtocol.                                    *)
(*                                                                         *)
(* Execution is cooperative: exactly one fiber or callback runs at a time  *)
(* and it keeps control until it reaches a switchpoint.  Every action is   *)
(* therefore one uninterrupted run: from the call (or the wake-up) up to   *)
(* the next suspension or the return.  A fiber that is woken by            *)
(* Event.set() or Queue.put() does not run at once: it becomes ready and   *)
(* runs in a later step, so other callbacks can run in between.            *)
(***************************************************************************)
EXTENDS Integers, Sequences, FiniteSets, TLC

\* ---- bounds ----
NumTasks == 2          \* application fibers calling the blocking API
MaxMsgs == 3           \* messages the decoder enqueues during one connection
MaxSize == 2           \* largest read buffer size / watermark argument tried

\* ---- program constants ----
DefaultReadBufferSize == 65536      \* BaseProtocol.read_buffer_size

None == "None"
Tasks == 1..NumTasks

\* Exceptions.  TransportError stands for the exception a transport passes to
\* connection_lost; it is not a ProtocolError.  HandlerProtocolError is the
\* ProtocolError instance a message handler raises, UncaughtProtocolError is
\* ProtocolError('uncaught exception in dispatcher'), ClosingProtocolError
\* is ProtocolError('protocol is closing/closed').
TransportError == "TransportError"
HandlerProtocolError == "HandlerProtocolError"
UncaughtProtocolError == "UncaughtProtocolError"
ClosingProtocolError == "ClosingProtocolError"
AttributeError == "AttributeError"
QueueEmpty == "QueueEmpty"
TypeError == "TypeError"
LostArgs == {None, TransportError}

WriteOps == {"write", "writelines", "write_eof"}

\* An optional argument: <<>> when it is omitted (None), <<v>> when it is v.
SizeArgs == {<<>>} \cup {<<v>> : v \in (0 - MaxSize - 1)..MaxSize}
\* Buffer sizes tried: small ones and the two default watermarks.
Sizes == (0..MaxSize) \cup {DefaultReadBufferSize \div 2, DefaultReadBufferSize}

VARIABLES
    \* BaseProtocol fields
    transport,            \* _transport: None or "T"
    error,                \* _error
    may_write,            \* _may_write (flag of the Event)
    closing,              \* _closing
    closed,               \* _closed (flag of the Event)
    reading,              \* _reading
    cur_read_buffer_size, \* _read_buffer_size
    read_buffer_high,     \* _read_buffer_high
    read_buffer_low,      \* _read_buffer_low
    \* MessageProtocol fields
    message_handler,      \* _message_handler: None or "h"
    queue,                \* _queue
    dispatcher,           \* _dispatcher: None or "D" (reference to the fiber)
    \* fibers
    dpc,                  \* position of the dispatcher fiber
    dcancel,              \* a cancellation is pending for the dispatcher fiber
    tpc,                  \* position of each application fiber
    top,                  \* the write operation a suspended fiber is inside
    \* transport side
    phase,                \* "new", "connected", "lost": callbacks delivered so far
    nput,                 \* messages enqueued so far
    \* observations
    last,                 \* what the most recent step did
    handled,              \* messages passed to the handler, in order
    current,              \* the message the handler is working on, 0 if none
    tclose,               \* transport.close() calls so far, by caller
    lostarg,              \* <<>>, or <<exc, _error before>> of connection_lost(exc)
    wakes,                \* fibers released from _closed.wait() so far
    rcall                 \* the connection's latest pause_reading/resume_reading call

pvars == <<transport, error, may_write, closing, closed, reading,
           cur_read_buffer_size, read_buffer_high, read_buffer_low>>
mvars == <<message_handler, queue, dispatcher>>
fvars == <<dpc, dcancel, tpc, top>>
evars == <<phase, nput>>
ovars == <<last, handled, current, tclose, lostarg, wakes, rcall>>
vars == <<pvars, mvars, fvars, evars, ovars>>

\* What a step did: the operation, the application fiber it ran on (0: a
\* callback or the dispatcher), whether it resumed a suspended call, its
\* outcome and the transport and handler calls it made, in order.
ObsOf(op, task, resumed, result, calls) ==
    [op |-> op, task |-> task, resumed |-> resumed, result |-> result,
     calls |-> calls]

Obs(op, task, result, calls) == ObsOf(op, task, FALSE, result, calls)

ObsResumed(op, task, result, calls) == ObsOf(op, task, TRUE, result, calls)

\* The dispatcher fiber holds control (it is between two switchpoints).
Running == dpc = "running"

\* ---- Event (gruvi.sync) ----
\* Event.set() wakes every fiber waiting on the event: it becomes ready.
WakeAll(pc, from, to) ==
    [t \in Tasks |-> IF pc[t] = from THEN to ELSE pc[t]]

\* ---- BaseProtocol.__init__ / MessageProtocol.__init__ ----
Init ==
    /\ transport = None
    /\ error = None
    /\ may_write = TRUE
    /\ closing = FALSE
    /\ closed = FALSE
    /\ reading = FALSE
    /\ cur_read_buffer_size = 0
    /\ read_buffer_high = DefaultReadBufferSize
    /\ read_buffer_low = DefaultReadBufferSize \div 2
    /\ message_handler \in {None, "h"}
    /\ queue = <<>>
    /\ dispatcher = IF message_handler # None THEN "D" ELSE None
    /\ dpc = IF message_handler # None THEN "start" ELSE "none"
    /\ dcancel = FALSE
    /\ tpc = [t \in Tasks |-> "idle"]
    /\ top = [t \in Tasks |-> "-"]
    /\ phase = "new"
    /\ nput = 0
    /\ last = Obs("init", 0, "-", <<>>)
    /\ handled = <<>>
    /\ current = 0
    /\ tclose = <<>>
    /\ lostarg = <<>>
    /\ wakes = 0
    /\ rcall = "none"

\* ---- BaseProtocol.connection_made ----
connection_made ==
    /\ phase = "new"
    /\ ~Running
    /\ transport' = "T"
    /\ reading' = TRUE
    /\ phase' = "connected"
    /\ rcall' = "none"
    /\ last' = Obs("connection_made", 0, "-", <<>>)
    /\ UNCHANGED <<error, may_write, closing, closed, cur_read_buffer_size,
                   read_buffer_high, read_buffer_low>>
    /\ UNCHANGED <<mvars, fvars, nput, handled, current, tclose, lostarg,
                   wakes>>

\* ---- BaseProtocol.pause_writing / resume_writing ----
pause_writing ==
    /\ phase = "connected"
    /\ ~Running
    /\ may_write' = FALSE
    /\ last' = Obs("pause_writing", 0, "-", <<>>)
    /\ UNCHANGED <<transport, error, closing, closed, reading,
                   cur_read_buffer_size, read_buffer_high, read_buffer_low>>
    /\ UNCHANGED <<mvars, fvars, evars, handled, current, tclose, lostarg,
                   wakes, rcall>>

resume_writing_wakes(pc) == WakeAll(pc, "wait_may_write", "ready_write")

resume_writing ==
    /\ phase = "connected"
    /\ ~Running
    /\ may_write' = TRUE
    /\ tpc' = resume_writing_wakes(tpc)
    /\ last' = Obs("resume_writing", 0, "-", <<>>)
    /\ UNCHANGED <<transport, error, closing, closed, reading,
                   cur_read_buffer_size, read_buffer_high, read_buffer_low>>
    /\ UNCHANGED <<mvars, dpc, dcancel, top, evars, handled, current, tclose,
                   lostarg, wakes, rcall>>

\* ---- BaseProtocol.set_read_buffer_limits ----
limits_high(high) == IF high = <<>> THEN DefaultReadBufferSize ELSE high[1]

limits_low_unclamped(high, low) ==
    IF low = <<>> THEN limits_high(high) \div 2 ELSE low[1]

limits_low(high, low) ==
    LET h == limits_high(high)
        l == IF low = <<>> THEN h \div 2 ELSE low[1]
    IN  IF l > h THEN h ELSE l

set_read_buffer_limits(high, low) ==
    /\ ~Running
    /\ read_buffer_high' = limits_high(high)
    /\ read_buffer_low' = limits_low(high, low)
    /\ last' = Obs("set_read_buffer_limits", 0, <<high, low>>, <<>>)
    /\ UNCHANGED <<transport, error, may_write, closing, closed, reading,
                   cur_read_buffer_size>>
    /\ UNCHANGED <<mvars, fvars, evars, handled, current, tclose, lostarg,
                   wakes, rcall>>

\* The concrete protocol (a subclass) keeps _read_buffer_size up to date
\* while it buffers and consumes input.
set_read_buffer_size(n) ==
    /\ ~Running
    /\ n # cur_read_buffer_size
    /\ cur_read_buffer_size' = n
    /\ last' = Obs("set_read_buffer_size", 0, "-", <<>>)
    /\ UNCHANGED <<transport, error, may_write, closing, closed, reading,
                   read_buffer_high, read_buffer_low>>
    /\ UNCHANGED <<mvars, fvars, evars, handled, current, tclose, lostarg,
                   wakes, rcall>>

\* ---- BaseProtocol.read_buffer_size_changed ----
get_read_buffer_size == cur_read_buffer_size

should_pause_strict(bufsize) == bufsize > read_buffer_high /\ reading

should_pause(bufsize) == bufsize >= read_buffer_high /\ reading

should_resume_any(bufsize) == bufsize <= read_buffer_low

should_resume(bufsize) == bufsize <= read_buffer_low /\ ~reading

\* The transport calls read_buffer_size_changed() makes, in order.
rbsc_calls ==
    IF transport = None THEN <<>>
    ELSE IF should_pause(get_read_buffer_size) THEN <<"pause_reading">>
    ELSE IF should_resume(get_read_buffer_size) THEN <<"resume_reading">>
    ELSE <<>>

rbsc_reading_unguarded ==
    IF should_pause(get_read_buffer_size) THEN FALSE
    ELSE IF should_resume(get_read_buffer_size) THEN TRUE
    ELSE reading

\* The value of _reading after read_buffer_size_changed().
rbsc_reading ==
    IF transport = None THEN reading
    ELSE IF should_pause(get_read_buffer_size) THEN FALSE
    ELSE IF should_resume(get_read_buffer_size) THEN TRUE
    ELSE reading

\* The latest pause_reading/resume_reading call after the calls of one step.
latest_call(before, calls) ==
    IF calls = <<>> THEN before ELSE calls[Len(calls)]

read_buffer_size_changed ==
    /\ ~Running
    /\ reading' = rbsc_reading
    /\ rcall' = latest_call(rcall, rbsc_calls)
    /\ last' = Obs("read_buffer_size_changed", 0, "-", rbsc_calls)
    /\ UNCHANGED <<transport, error, may_write, closing, closed,
                   cur_read_buffer_size, read_buffer_high, read_buffer_low>>
    /\ UNCHANGED <<mvars, fvars, evars, handled, current, tclose, lostarg,
                   wakes>>

\* ---- Fiber.cancel (gruvi.fibers) ----
\* A fiber that is suspended in a blocking call has the call unwound: it will
\* see Cancelled when it runs next.  A fiber that has ended is left alone.
\* For a fiber that is ready (woken but not yet run, or not yet started) the
\* order of the wake-up and the cancellation is the scheduler's: either the
\* wake-up stands and Cancelled is raised at the fiber's next switchpoint
\* (wakeup_first), or the cancellation replaces the wake-up.
cancel_pc(pc, wakeup_first) ==
    IF pc \in {"get_wait", "handler_wait"} THEN "cancelled"
    ELSE IF pc \in {"get_ready", "handler_ready"} /\ ~wakeup_first
    THEN "cancelled"
    ELSE pc

cancel_pending(pc, pending, wakeup_first) ==
    IF pc = "start" \/ (pc \in {"get_ready", "handler_ready"} /\ wakeup_first)
    THEN TRUE
    ELSE pending

\* ---- BaseProtocol.connection_lost / MessageProtocol.connection_lost ----
lost_error(err, exc) == IF err = None THEN exc ELSE err

lost_closed == TRUE

lost_closing_kept == closing

lost_closing == FALSE

lost_may_write == TRUE

\* _closed.set() and _may_write.set() wake the fibers waiting on them.
lost_wakes(pc) ==
    WakeAll(WakeAll(pc, "wait_closed", "ready_close"),
            "wait_may_write", "ready_write")

\* if self._dispatcher: self._dispatcher.cancel()
lost_dispatcher_pc(wakeup_first) ==
    IF dispatcher # None THEN cancel_pc(dpc, wakeup_first) ELSE dpc

lost_dispatcher_cancel(wakeup_first) ==
    IF dispatcher # None THEN cancel_pending(dpc, dcancel, wakeup_first)
    ELSE dcancel

connection_lost(exc, wakeup_first) ==
    /\ phase = "connected"
    /\ ~Running
    /\ error' = lost_error(error, exc)
    /\ closed' = lost_closed
    /\ closing' = lost_closing
    /\ may_write' = lost_may_write
    /\ tpc' = lost_wakes(tpc)
    /\ transport' = None
    /\ dpc' = lost_dispatcher_pc(wakeup_first)
    /\ dcancel' = lost_dispatcher_cancel(wakeup_first)
    /\ dispatcher' = None
    /\ phase' = "lost"
    /\ lostarg' = <<exc, error>>
    /\ wakes' = wakes + Cardinality({t \in Tasks : tpc[t] = "wait_closed"
                                                  /\ tpc'[t] = "ready_close"})
    /\ last' = Obs("connection_lost", 0, exc, <<>>)
    /\ UNCHANGED <<reading, cur_read_buffer_size, read_buffer_high,
                   read_buffer_low, message_handler, queue, top, nput,
                   handled, current, tclose, rcall>>

\* ---- BaseProtocol.close ----
is_closed_only == closed

\* if self._closing or self._closed
is_closing_only == closing

is_closing_or_closed == closing \/ closed

close(t) ==
    /\ tpc[t] = "idle"
    /\ ~Running
    /\ IF is_closing_or_closed
       THEN /\ last' = Obs("close", t, "returned", <<>>)
            /\ UNCHANGED <<closing, tclose, tpc>>
       ELSE /\ closing' = TRUE
            /\ IF transport = None
               THEN /\ last' = Obs("close", t, AttributeError, <<>>)
                    /\ UNCHANGED <<tclose, tpc>>
               ELSE /\ tclose' = Append(tclose, "close")
                    /\ tpc' = [tpc EXCEPT ![t] = "wait_closed"]
                    /\ last' = Obs("close", t, "blocked", <<"close">>)
    /\ UNCHANGED <<transport, error, may_write, closed, reading,
                   cur_read_buffer_size, read_buffer_high, read_buffer_low>>
    /\ UNCHANGED <<mvars, dpc, dcancel, top, evars, handled, current,
                   lostarg, wakes, rcall>>

\* The fiber is resumed after _closed.wait().
close_resume(t) ==
    /\ tpc[t] = "ready_close"
    /\ ~Running
    /\ tpc' = [tpc EXCEPT ![t] = "idle"]
    /\ last' = ObsResumed("close", t, "returned", <<>>)
    /\ UNCHANGED <<pvars, mvars, dpc, dcancel, top, evars, handled, current,
                   tclose, lostarg, wakes, rcall>>

\* ---- Protocol.write / writelines / write_eof ----
wait_returns_always(flag) == TRUE

\* _may_write.wait() returns at once when the event is set.
wait_returns(flag) == flag

\* What the method does once _may_write.wait() has returned: the exception
\* it raises, or "forwarded" when it calls the transport.
write_outcome_error_unchecked(err, clsg, clsd, tr) ==
    IF clsg \/ clsd THEN ClosingProtocolError
    ELSE IF tr = None THEN AttributeError
    ELSE "forwarded"

write_outcome(err, clsg, clsd, tr) ==
    IF err # None THEN err
    ELSE IF clsg \/ clsd THEN ClosingProtocolError
    ELSE IF tr = None THEN AttributeError
    ELSE "forwarded"

write_obs(t, op, resumed) ==
    LET r == write_outcome(error, closing, closed, transport)
    IN  ObsOf(op, t, resumed, r, IF r = "forwarded" THEN <<op>> ELSE <<>>)

write_call(t, op) ==
    /\ tpc[t] = "idle"
    /\ ~Running
    /\ IF wait_returns(may_write)
       THEN /\ last' = write_obs(t, op, FALSE)
            /\ UNCHANGED <<tpc, top>>
       ELSE /\ tpc' = [tpc EXCEPT ![t] = "wait_may_write"]
            /\ top' = [top EXCEPT ![t] = op]
            /\ last' = Obs(op, t, "blocked", <<>>)
    /\ UNCHANGED <<pvars, mvars, dpc, dcancel, evars, handled, current, tclose,
                   lostarg, wakes, rcall>>

write(t) == write_call(t, "write")

writelines(t) == write_call(t, "writelines")

write_eof(t) == write_call(t, "write_eof")

\* The fiber is resumed after _may_write.wait().
write_resume(t) ==
    /\ tpc[t] = "ready_write"
    /\ ~Running
    /\ tpc' = [tpc EXCEPT ![t] = "idle"]
    /\ top' = [top EXCEPT ![t] = "-"]
    /\ last' = write_obs(t, top[t], TRUE)
    /\ UNCHANGED <<pvars, mvars, dpc, dcancel, evars, handled, current, tclose,
                   lostarg, wakes, rcall>>

\* ---- Queue.put (gruvi.sync), called by the concrete protocol's decoder ----
\* put() wakes one consumer that is suspended in get(): the dispatcher, or one
\* of the application fibers suspended in get_message() (0: there is none).
queue_waiters(pc) ==
    IF {t \in Tasks : pc[t] = "wait_get"} = {} THEN {0}
    ELSE {t \in Tasks : pc[t] = "wait_get"}

queue_put ==
    /\ phase = "connected"
    /\ ~Running
    /\ nput < MaxMsgs
    /\ nput' = nput + 1
    /\ queue' = Append(queue, nput + 1)
    /\ dpc' = IF dpc = "get_wait" THEN "get_ready" ELSE dpc
    /\ \E w \in queue_waiters(tpc) :
          tpc' = [t \in Tasks |-> IF t = w THEN "ready_get" ELSE tpc[t]]
    /\ last' = Obs("put", 0, "-", <<>>)
    /\ UNCHANGED <<pvars, message_handler, dispatcher, dcancel, top,
                   phase, handled, current, tclose, lostarg, wakes, rcall>>

\* ---- MessageProtocol._dispatch_loop ----
HandlerOutcomes == {"return", "block", "raise_ProtocolError", "raise_Exception"}

\* The error the dispatcher stores for what the handler raised.
dispatch_error(outcome) ==
    IF outcome = "raise_ProtocolError" THEN HandlerProtocolError
    ELSE UncaughtProtocolError

\* The except clauses for ProtocolError and Exception: store the error, then
\* self._transport.close().  Without a transport the call raises
\* AttributeError out of the fiber.
dispatch_fail(outcome, calls) ==
    /\ error' = dispatch_error(outcome)
    /\ IF transport # None
       THEN /\ tclose' = Append(tclose, "dispatcher")
            /\ dpc' = "exited"
            /\ last' = Obs("dispatch", 0, outcome, calls \o <<"close">>)
       ELSE /\ tclose' = tclose
            /\ dpc' = "crashed"
            /\ last' = Obs("dispatch", 0, outcome, calls)
    /\ current' = 0

\* The handler goes on with message m, from its call or from a wake-up, up to
\* its return, its next suspension, or the exception it raises.  A
\* suspension is a switchpoint: a pending cancellation is raised there, the
\* handler lets it pass and the loop's except clause for Cancelled ends the
\* fiber.
handler_runs(m, outcome, calls) ==
    CASE outcome = "return" ->
            /\ dpc' = "running"
            /\ current' = 0
            /\ last' = Obs("dispatch", 0, outcome, calls)
            /\ UNCHANGED <<error, tclose>>
      [] outcome = "block" ->
            /\ dpc' = IF dcancel THEN "exited" ELSE "handler_wait"
            /\ current' = IF dcancel THEN 0 ELSE m
            /\ last' = Obs("dispatch", 0,
                           IF dcancel THEN "Cancelled" ELSE outcome, calls)
            /\ UNCHANGED <<error, tclose>>
      [] OTHER -> dispatch_fail(outcome, calls)

deliver_no_recheck == [reading |-> reading, calls |-> <<>>]

\* The loop's self.read_buffer_size_changed() between get() and the handler.
deliver_recheck == [reading |-> rbsc_reading, calls |-> rbsc_calls]

\* message = self._queue.get() has returned; read_buffer_size_changed();
\* message_received(message), which calls the handler.
deliver(outcome) ==
    /\ queue # <<>>
    /\ queue' = Tail(queue)
    /\ reading' = deliver_recheck.reading
    /\ handled' = Append(handled, Head(queue))
    /\ handler_runs(Head(queue), outcome,
                    <<"get">> \o deliver_recheck.calls \o <<"handler">>)
    /\ UNCHANGED <<transport, may_write, closing, closed, cur_read_buffer_size,
                   read_buffer_high, read_buffer_low>>
    /\ rcall' = latest_call(rcall, deliver_recheck.calls)
    /\ UNCHANGED <<message_handler, dispatcher, dcancel, tpc, top, evars,
                   lostarg, wakes>>

\* The fiber reaches self._queue.get(): on its first run and after each
\* return of the handler.
dispatch_get ==
    /\ dpc \in {"start", "running"}
    /\ IF dcancel
       THEN /\ dpc' = "exited"
            /\ last' = Obs("dispatch", 0, "Cancelled", <<"get">>)
            /\ UNCHANGED <<pvars, mvars, dcancel, tpc, top, evars, handled,
                           current, tclose, lostarg, wakes, rcall>>
       ELSE IF queue = <<>>
       THEN /\ dpc' = "get_wait"
            /\ last' = Obs("dispatch", 0, "blocked", <<"get">>)
            /\ UNCHANGED <<pvars, mvars, dcancel, tpc, top, evars, handled,
                           current, tclose, lostarg, wakes, rcall>>
       ELSE \E outcome \in HandlerOutcomes : deliver(outcome)

\* The fiber was woken inside get() by a put() and runs.
dispatch_wake ==
    /\ dpc = "get_ready"
    /\ \E outcome \in HandlerOutcomes : deliver(outcome)

\* The fiber was cancelled while suspended (in get() or inside the handler):
\* Cancelled is raised at that point and the loop ends silently.
cancelled_error_stored(err) == UncaughtProtocolError

\* except Cancelled: only a debug log line; _error is left as it is.
cancelled_error(err) == err

dispatch_cancelled ==
    /\ dpc = "cancelled"
    /\ dpc' = "exited"
    /\ current' = 0
    /\ error' = cancelled_error(error)
    /\ last' = Obs("dispatch", 0, "Cancelled", <<>>)
    /\ UNCHANGED <<transport, may_write, closing, closed, reading,
                   cur_read_buffer_size, read_buffer_high, read_buffer_low>>
    /\ UNCHANGED <<mvars, dcancel, tpc, top, evars, handled, tclose,
                   lostarg, wakes, rcall>>

\* Whatever the handler waits for happens: the fiber becomes ready.
handler_wake ==
    /\ dpc = "handler_wait"
    /\ dpc' = "handler_ready"
    /\ last' = Obs("handler_wake", 0, "-", <<>>)
    /\ UNCHANGED <<pvars, mvars, dcancel, tpc, top, evars, handled, current,
                   tclose, lostarg, wakes, rcall>>

\* The handler continues after its suspension.
handler_resume ==
    /\ dpc = "handler_ready"
    /\ \E outcome \in HandlerOutcomes : handler_runs(current, outcome, <<>>)
    /\ UNCHANGED <<transport, may_write, closing, closed, reading,
                   cur_read_buffer_size, read_buffer_high, read_buffer_low>>
    /\ UNCHANGED <<mvars, dcancel, tpc, top, evars, handled, lostarg, wakes, rcall>>

\* ---- specifications ----
\* ---- MessageProtocol.message_received ----
\* Called by the concrete protocol's decoder from a transport callback, with
\* the message it has just decoded.  The handler is called in the caller's
\* control flow; what it raises goes to the caller, not to the dispatcher's
\* except clauses.  Without a handler the call of None raises TypeError.
ReceivedOutcomes == {"return", "raise_ProtocolError", "raise_Exception"}

received_queue_put(q, m) == Append(q, m)

received_queue(q, m) == q

received_handled(h, m) == IF message_handler # None THEN Append(h, m) ELSE h

message_received(outcome) ==
    /\ phase = "connected"
    /\ ~Running
    /\ nput < MaxMsgs
    /\ nput' = nput + 1
    /\ queue' = received_queue(queue, nput + 1)
    /\ handled' = received_handled(handled, nput + 1)
    /\ last' = IF message_handler # None
               THEN Obs("message_received", 0, outcome, <<"handler">>)
               ELSE Obs("message_received", 0, TypeError, <<>>)
    /\ UNCHANGED <<pvars, message_handler, dispatcher, fvars, phase, current,
                   tclose, lostarg, wakes, rcall>>

\* ---- MessageProtocol.get_message ----
\* The pull interface of a protocol that has no message handler: the calling
\* fiber is the one consumer of the queue.  Queue.get(block, timeout) with
\* the default timeout (None): an item is popped when there is one; otherwise
\* the call fails with QueueEmpty when block is false and suspends when it
\* is true.
queue_get_result(q, block) ==
    IF q # <<>> THEN "message"
    ELSE IF block THEN "blocked"
    ELSE QueueEmpty

get_message_result(q, block) == queue_get_result(q, block)

get_message(t, block) ==
    /\ tpc[t] = "idle"
    /\ ~Running
    /\ message_handler = None
    /\ queue' = IF queue # <<>> THEN Tail(queue) ELSE queue
    /\ tpc' = [tpc EXCEPT ![t] =
                 IF get_message_result(queue, block) = "blocked"
                 THEN "wait_get" ELSE "idle"]
    /\ last' = Obs("get_message", t, get_message_result(queue, block), <<>>)
    /\ UNCHANGED <<pvars, message_handler, dispatcher, dpc, dcancel, top,
                   evars, handled, current, tclose, lostarg, wakes, rcall>>

\* A fiber woken by put() runs: it looks at the queue again and suspends again
\* when another consumer has taken the item in between.
get_message_resume(t) ==
    /\ tpc[t] = "ready_get"
    /\ ~Running
    /\ queue' = IF queue # <<>> THEN Tail(queue) ELSE queue
    /\ tpc' = [tpc EXCEPT ![t] =
                 IF get_message_result(queue, TRUE) = "blocked"
                 THEN "wait_get" ELSE "idle"]
    /\ last' = ObsResumed("get_message", t,
                          get_message_result(queue, TRUE), <<>>)
    /\ UNCHANGED <<pvars, message_handler, dispatcher, dpc, dcancel, top,
                   evars, handled, current, tclose, lostarg, wakes, rcall>>

Next ==
    \/ connection_made
    \/ \E exc \in LostArgs, wakeup_first \in BOOLEAN :
          connection_lost(exc, wakeup_first)
    \/ pause_writing
    \/ resume_writing
    \/ \E t \in Tasks : write(t)
    \/ \E t \in Tasks : writelines(t)
    \/ \E t \in Tasks : write_eof(t)
    \/ \E t \in Tasks : write_resume(t)
    \/ \E t \in Tasks : close(t)
    \/ \E t \in Tasks : close_resume(t)
    \/ queue_put
    \/ dispatch_get
    \/ dispatch_wake
    \/ dispatch_cancelled
    \/ handler_wake
    \/ handler_resume

Spec == Init /\ [][Next]_vars

NextRead ==
    \/ connection_made
    \/ \E exc \in LostArgs, wakeup_first \in BOOLEAN :
          connection_lost(exc, wakeup_first)
    \/ \E n \in Sizes : set_read_buffer_size(n)
    \/ \E high \in SizeArgs, low \in SizeArgs : set_read_buffer_limits(high, low)
    \/ read_buffer_size_changed

SpecRead == Init /\ [][NextRead]_vars

NextDispatch ==
    \/ connection_made
    \/ \E exc \in LostArgs, wakeup_first \in BOOLEAN :
          connection_lost(exc, wakeup_first)
    \/ \E n \in Sizes : set_read_buffer_size(n)
    \/ read_buffer_size_changed
    \/ queue_put
    \/ dispatch_get
    \/ dispatch_wake
    \/ dispatch_cancelled
    \/ handler_wake
    \/ handler_resume

SpecDispatch == Init /\ [][NextDispatch]_vars
\* ---- properties ----
\* The pull interface: transport callbacks, the decoder and get_message().
NextPull ==
    \/ connection_made
    \/ \E exc \in LostArgs, wakeup_first \in BOOLEAN :
          connection_lost(exc, wakeup_first)
    \/ queue_put
    \/ \E t \in Tasks, block \in BOOLEAN : get_message(t, block)
    \/ \E t \in Tasks : get_message_resume(t)

SpecPull == Init /\ [][NextPull]_vars

\* The push interface: the decoder hands messages over with put() or with
\* message_received(), the dispatcher delivers what is on the queue.
NextReceive ==
    \/ connection_made
    \/ \E exc \in LostArgs, wakeup_first \in BOOLEAN :
          connection_lost(exc, wakeup_first)
    \/ queue_put
    \/ \E outcome \in ReceivedOutcomes : message_received(outcome)
    \/ dispatch_get
    \/ dispatch_wake
    \/ dispatch_cancelled
    \/ handler_wake
    \/ handler_resume

SpecReceive == Init /\ [][NextReceive]_vars

\* The re-check of the read side by the application and by the dispatcher,
\* under every watermark configuration; the buffer size stays at 0, so the
\* watermarks decide whether it is at or above high, at or below low.
NextRecheck ==
    \/ connection_made
    \/ \E exc \in LostArgs, wakeup_first \in BOOLEAN :
          connection_lost(exc, wakeup_first)
    \/ \E high \in SizeArgs, low \in SizeArgs :
          set_read_buffer_limits(high, low)
    \/ read_buffer_size_changed
    \/ queue_put
    \/ dispatch_get
    \/ dispatch_wake
    \/ dispatch_cancelled
    \/ handler_wake
    \/ handler_resume

SpecRecheck == Init /\ [][NextRecheck]_vars

Count(seq, x) == Cardinality({i \in 1..Len(seq) : seq[i] = x})

WriteForwarded == last.op \in WriteOps /\ last.result = "forwarded"

\* C1 (as stated): write(), writelines() and write_eof() forward to the
\* transport only at a moment when may_write is signaled, and a writer is
\* suspended on may_write only while it is cleared.
C1_ForwardOnlyWhileSignaled ==
    /\ WriteForwarded => may_write
    /\ \A t \in Tasks : tpc[t] = "wait_may_write" => ~may_write

\* C1 (amended): a write call forwards without suspending only when may_write
\* is signaled at that moment; a writer that finds may_write cleared is
\* suspended, stays suspended while may_write stays cleared, and becomes ready
\* exactly in the step that signals may_write again; only a suspended writer
\* becomes ready.  (The woken writer does not look at may_write again.)
C1_ForwardAfterWait ==
    /\ [](/\ (WriteForwarded /\ ~last.resumed) => may_write
          /\ \A t \in Tasks : tpc[t] = "wait_may_write" => ~may_write)
    /\ [][\A t \in Tasks :
            /\ (tpc[t] = "wait_may_write" /\ tpc'[t] # "wait_may_write")
                 => (tpc'[t] = "ready_write" /\ ~may_write /\ may_write')
            /\ (tpc[t] # "ready_write" /\ tpc'[t] = "ready_write")
                 => tpc[t] = "wait_may_write"]_vars

\* A writer that was suspended on may_write has been woken and has forwarded.
C1_Witness == WriteForwarded /\ last.resumed

\* C2 (as stated): after connection_lost(err) on a protocol without a stored
\* error, every write call fails with err, or with the closing/closed
\* ProtocolError when err is None, forwards nothing and does not stay blocked.
C2_WriteFailsWithLostError ==
    /\ (phase = "lost" /\ lostarg[2] = None /\ last.op \in WriteOps) =>
         /\ last.result = IF lostarg[1] # None THEN lostarg[1]
                          ELSE ClosingProtocolError
         /\ last.calls = <<>>
    /\ phase = "lost" => \A t \in Tasks : tpc[t] # "wait_may_write"

\* C3: once connection_lost has run, closed is set, closing is false, no fiber
\* is suspended in close(), and the fiber that was suspended in close() has
\* been released exactly once, whichever of close() and connection_lost ran
\* first.
C3_CloseReleasedOnce ==
    /\ wakes <= Count(tclose, "close")
    /\ wakes <= 1
    /\ phase = "lost" =>
         /\ closed /\ ~closing
         /\ \A t \in Tasks : tpc[t] # "wait_closed"
         /\ wakes = Count(tclose, "close")

\* close() ran first, connection_lost released the fiber, close() returned.
C3_Witness ==
    /\ phase = "lost" /\ wakes = 1
    /\ last.op = "close" /\ last.resumed /\ last.result = "returned"

\* C4: close() calls transport.close() at most once over all calls, and a
\* close() made while closing or closed returns at once: no suspension, no
\* transport call, no change of state.
C4_CloseIdempotent ==
    /\ [](Count(tclose, "close") <= 1)
    /\ [][(last'.op = "close" /\ ~last'.resumed /\ (closing \/ closed)) =>
           /\ last'.result = "returned"
           /\ last'.calls = <<>>
           /\ UNCHANGED <<pvars, mvars, fvars, evars, handled, current,
                          tclose, lostarg, wakes>>]_vars

\* A second close() has returned at once while the first caller is suspended.
C4_Witness ==
    /\ last.op = "close" /\ ~last.resumed /\ last.result = "returned"
    /\ closing
    /\ \E t \in Tasks : t # last.task /\ tpc[t] = "wait_closed"

\* C5: with a transport attached, read_buffer_size_changed() calls
\* pause_reading() exactly when size >= high and reading is enabled, calls
\* resume_reading() exactly when size <= low and reading is disabled, makes at
\* most one call, sets the reading flag to match, and while low < size < high
\* makes no call and leaves the flag alone.
C5_Hysteresis ==
    [][(last'.op = "read_buffer_size_changed" /\ transport # None) =>
        LET size == cur_read_buffer_size
            calls == last'.calls
        IN  /\ calls \in {<<>>, <<"pause_reading">>, <<"resume_reading">>}
            /\ calls = <<"pause_reading">>
                 <=> (size >= read_buffer_high /\ reading)
            /\ calls = <<"resume_reading">>
                 <=> (size <= read_buffer_low /\ ~reading)
            /\ reading' = (IF calls = <<"pause_reading">> THEN FALSE
                           ELSE IF calls = <<"resume_reading">> THEN TRUE
                           ELSE reading)
            /\ (read_buffer_low < size /\ size < read_buffer_high) =>
                 (calls = <<>> /\ reading' = reading)]_vars

\* Reading was paused at the high watermark and is resumed at the low one.
C5_Witness ==
    /\ last.op = "read_buffer_size_changed"
    /\ last.calls = <<"resume_reading">>
    /\ read_buffer_low < read_buffer_high
    /\ cur_read_buffer_size = read_buffer_low
\* C6: the handler receives the enqueued messages in enqueue order, none
\* skipped and none twice; a dispatcher suspended in get() has passed on every
\* message enqueued so far; each delivery is get(), then one
\* read_buffer_size_changed() (pausing or resuming reading where the buffer
\* size asks for it), then the handler call; and no message is dequeued while
\* the handler is still working on the previous one.
C6_InOrderDelivery ==
    /\ [](/\ handled \o queue = [i \in 1..nput |-> i]
          /\ dpc = "get_wait" => queue = <<>>
          /\ current # 0 =>
               /\ handled # <<>> /\ handled[Len(handled)] = current
               /\ dpc \in {"handler_wait", "handler_ready", "cancelled"})
    /\ [][handled' # handled =>
           /\ current = 0
           /\ queue # <<>>
           /\ handled' = Append(handled, Head(queue))
           /\ queue' = Tail(queue)
           /\ LET c == last'.calls
                  size == cur_read_buffer_size
              IN  /\ last'.op = "dispatch"
                  /\ c[1] = "get"
                  /\ IF transport # None /\ size >= read_buffer_high /\ reading
                     THEN /\ c[2] = "pause_reading" /\ c[3] = "handler"
                          /\ ~reading'
                     ELSE IF transport # None /\ size <= read_buffer_low
                             /\ ~reading
                     THEN /\ c[2] = "resume_reading" /\ c[3] = "handler"
                          /\ reading'
                     ELSE /\ c[2] = "handler"
                          /\ reading' = reading]_vars

\* Three messages were delivered in order, and the re-check before the third
\* handler call paused reading.
C6_Witness ==
    /\ handled = <<1, 2, 3>>
    /\ last.op = "dispatch"
    /\ last.calls = <<"get", "pause_reading", "handler">>

\* C7 (as stated): when the handler raises an exception that is neither
\* Cancelled nor a ProtocolError, the stored error is the generic
\* ProtocolError, the dispatcher has called transport.close() exactly once and
\* its loop has ended.
C7_UncaughtFaultClosesOnce ==
    (last.op = "dispatch" /\ last.result = "raise_Exception") =>
        /\ error = UncaughtProtocolError
        /\ Count(tclose, "dispatcher") = 1
        /\ dpc \in {"exited", "crashed"}

\* C8 (as stated): when the handler raises a ProtocolError e on the k-th
\* message, the messages 1..k are the ones handled, the stored error is e,
\* the dispatcher has called transport.close() once and its loop has ended.
C8_ProtocolErrorClosesOnce ==
    (last.op = "dispatch" /\ last.result = "raise_ProtocolError") =>
        /\ handled = [i \in 1..Len(handled) |-> i]
        /\ error = HandlerProtocolError
        /\ Count(tclose, "dispatcher") = 1
        /\ dpc \in {"exited", "crashed"}

\* C9 (as stated): once the stored error is set, no step changes it.
C9_FirstErrorWins == [][error # None => error' = error]_vars

\* C10 (as stated): after connection_lost has run, the handler is not invoked
\* again.
C10_NoDeliveryAfterLost == [][phase = "lost" => handled' = handled]_vars

\* C11 (as stated): once an error is stored, every write call issued after
\* that fails at once with the stored error: it does not suspend and forwards
\* nothing, whether may_write is signaled or cleared.
C11_WriteFailsAtOnce ==
    [][(error # None /\ last'.op \in WriteOps /\ ~last'.resumed) =>
        /\ last'.result = error
        /\ last'.calls = <<>>]_vars

\* C11 (amended): a write call waits on may_write before it looks at the
\* stored error.  With an error stored, a call that finds may_write cleared
\* suspends; a call that finds may_write signaled, and a suspended call when
\* it is resumed, fails with the error stored at that moment and forwards
\* nothing.
C11_WriteFailsPastWait ==
    [][(error # None /\ last'.op \in WriteOps) =>
        LET t == last'.task
        IN  IF ~last'.resumed /\ ~may_write
            THEN /\ last'.result = "blocked"
                 /\ last'.calls = <<>>
                 /\ tpc'[t] = "wait_may_write"
            ELSE /\ last'.result = error
                 /\ last'.calls = <<>>
                 /\ tpc'[t] = "idle"]_vars

\* The dispatcher has stored its error while may_write was cleared, and a
\* write call made after that is suspended.
C11_Witness ==
    /\ error = UncaughtProtocolError
    /\ phase = "connected"
    /\ last.op \in WriteOps /\ last.result = "blocked"

\* C12 (as stated): once connection_lost has run, no fiber is suspended in
\* get_message(), and every get_message() call that ends after that fails with
\* the stored error, or with the closing/closed ProtocolError when none is
\* stored.
C12_GetMessageFailsAfterLost ==
    /\ phase = "lost" => \A t \in Tasks : tpc[t] # "wait_get"
    /\ (phase = "lost" /\ last.op = "get_message") =>
         last.result = IF error # None THEN error ELSE ClosingProtocolError

C14_CancelledExitsSilently ==
    [][(last'.op = "dispatch" /\ last'.result = "Cancelled") =>
        /\ dpc' = "exited"
        /\ error' = error
        /\ tclose' = tclose
        /\ \A i \in 1..Len(last'.calls) : last'.calls[i] # "close"
        /\ UNCHANGED <<transport, may_write, closing, closed>>]_vars

\* connection_lost(TransportError) has cancelled the dispatcher suspended in
\* get(); the loop has ended, the error is the transport's and
\* transport.close() was never called.
C14_Witness ==
    /\ last.op = "dispatch" /\ last.result = "Cancelled"
    /\ dpc = "exited" /\ phase = "lost"
    /\ error = TransportError /\ tclose = <<>>

\* C15: the low watermark is never above the high watermark, from construction
\* on and after every set_read_buffer_limits(high, low); an omitted high
\* becomes 65536; a given low becomes the smaller of low and high; an omitted
\* low becomes high // 2 (rounded down), which is above high when high is
\* negative and is then clamped to high like any other low.
C15_LowNeverAboveHigh ==
    /\ [](read_buffer_low <= read_buffer_high)
    /\ [][last'.op = "set_read_buffer_limits" =>
           LET high == last'.result[1]
               low == last'.result[2]
               h == read_buffer_high'
               l == read_buffer_low'
           IN  /\ h = IF high = <<>> THEN DefaultReadBufferSize ELSE high[1]
               /\ low # <<>> => l = IF low[1] > h THEN h ELSE low[1]
               /\ low = <<>> => IF h >= 0 THEN 2 * l <= h /\ h < 2 * l + 2
                                        ELSE l = h]_vars

\* set_read_buffer_limits(high, low) was called with low above high and the
\* low watermark is high.
C15_Witness ==
    /\ last.op = "set_read_buffer_limits"
    /\ last.result[2] # <<>>
    /\ last.result[1] # <<>>
    /\ last.result[2][1] > last.result[1][1]
    /\ read_buffer_low = read_buffer_high

\* C16 (as stated): a read_buffer_size_changed() call that directly follows
\* another one, with the buffer size and the watermarks unchanged in between,
\* makes no pause_reading() or resume_reading() call and leaves the reading
\* flag as it is.
C16_SecondCallNoOp ==
    [][(last.op = "read_buffer_size_changed"
        /\ last'.op = "read_buffer_size_changed") =>
        /\ last'.calls = <<>>
        /\ reading' = reading]_vars

ReadCalls == {"pause_reading", "resume_reading"}

\* C17: while the connection is up, each pause_reading() or resume_reading()
\* call differs from the latest one before it, the first one is
\* pause_reading(), and the reading flag is true exactly when the latest call
\* was resume_reading() or there has been none yet.
C17_PauseResumeAlternate ==
    /\ [](phase = "connected" =>
            (reading <=> rcall \in {"none", "resume_reading"}))
    /\ [][\A i \in 1..Len(last'.calls) :
            last'.calls[i] \in ReadCalls =>
                /\ phase = "connected" /\ phase' = "connected"
                /\ last'.calls[i] # rcall
                /\ rcall = "none" => last'.calls[i] = "pause_reading"
                /\ rcall' = last'.calls[i]]_vars

\* Reading was paused, the watermarks were changed after that, and reading
\* has been resumed.
C17_Witness ==
    /\ phase = "connected"
    /\ last.op = "read_buffer_size_changed"
    /\ last.calls = <<"resume_reading">>
    /\ rcall = "resume_reading" /\ reading
    /\ read_buffer_low # DefaultReadBufferSize \div 2
    /\ cur_read_buffer_size = 0

\* C18: closing and closed are never both true; once closed is signaled no
\* step clears it or sets closing; and closing is only ever left by becoming
\* closed (open -> closing -> closed or open -> closed, nothing else).
C18_LifecycleForwardOnly ==
    /\ [](~(closing /\ closed))
    /\ [][/\ closed => (closed' /\ ~closing')
          /\ (closing /\ ~closing') => closed']_vars

\* close() was called on a closed protocol (after connection_lost) and has
\* returned at once: closed is still signaled and closing is false.
C18_Witness ==
    /\ phase = "lost" /\ closed /\ ~closing
    /\ last.op = "close" /\ ~last.resumed /\ last.result = "returned"
    /\ Count(tclose, "close") = 1

\* C19 (as stated): a close() that fails because no transport is attached
\* leaves closing false; and so a close() made while the connection is up
\* returns at once only when the transport has already been asked to close.
C19_FailedCloseKeepsOpen ==
    /\ (last.op = "close" /\ last.result = AttributeError) => ~closing
    /\ (/\ last.op = "close" /\ ~last.resumed /\ last.result = "returned"
        /\ phase = "connected") => Count(tclose, "close") >= 1

\* C20: without a transport, read_buffer_size_changed() makes no call and
\* changes no field, whatever the buffer size and the watermarks are; and the
\* dispatcher's re-check before a handler call, made after connection_lost,
\* makes no pause_reading() or resume_reading() call and leaves the reading
\* flag, the buffer size and the watermarks alone.
C20_NoTransportNoChange ==
    [][transport = None =>
        /\ last'.op = "read_buffer_size_changed" =>
             /\ last'.calls = <<>>
             /\ UNCHANGED <<pvars, mvars, fvars, evars, handled, current,
                            tclose, lostarg, wakes, rcall>>
        /\ (last'.op = "dispatch" /\ handled' # handled) =>
             /\ last'.calls = <<"get", "handler">>
             /\ UNCHANGED <<transport, reading, cur_read_buffer_size,
                            read_buffer_high, read_buffer_low, rcall>>]_vars

\* After connection_lost the dispatcher has run its re-check and called the
\* handler while the buffer size was at the high watermark with reading
\* enabled: reading is still enabled and no call was made.
C20_Witness ==
    /\ phase = "lost" /\ transport = None
    /\ last.op = "dispatch" /\ last.calls = <<"get", "handler">>
    /\ reading /\ cur_read_buffer_size >= read_buffer_high
====
